---- MODULE Spec2Model ----
(***************************************************************************)
(* Model of the chat page of the Real Estate Analysis front end:           *)
(*   - RealEstateChatbot (src/app/real-estate-chatbot/page.tsx, the        *)
(*     current version, lines 280-562): the page state and the async       *)
(*     handler handleSendMessage;                                          *)
(*   - ChatInput (src/components/chatbot/ChatInput.tsx): the input box,    *)
(*     its selected file and its submit handler;                           *)
(*   - ResultsPanel / SummaryCard / ChartView / DataTable: what a render   *)
(*     of the results does with the results state;                         *)
(*   - the proxy routes POST /api/upload and POST /api/chatbot             *)
(*     (src/app/api/upload/route.ts, src/app/api/chatbot/route.ts).        *)
(*                                                                         *)
(* Four specifications: Spec is the page alone, with what happens behind   *)
(* axios.post left open; RouteSpec is the two routes called by any client; *)
(* SystemSpec is the page posting to the routes, with the clock running;   *)
(* RenderSpec is SummaryCard, ChartView and DataTable rendered with props  *)
(* of their own.                                                           *)
(*                                                                         *)
(* handleSendMessage is an async function: it runs up to its first await   *)
(* inside the submit event, and resumes when the awaited request settles.  *)
(* Each invocation is a record of `calls`; its field pc is the await the   *)
(* invocation is suspended at.  React re-renders between events, so the    *)
(* props a handler sees are those of the state left by the last event.     *)
(***************************************************************************)
EXTENDS Integers, Sequences, FiniteSets, TLC

VARIABLES
    messages,        \* useState<Message[]>        page.tsx:282
    results,         \* useState<AnalysisResult|null> page.tsx:283
    loading,         \* useState(false)            page.tsx:284
    error,           \* useState<string|null>      page.tsx:285
    uploadedFile,    \* useState<File|null>        page.tsx:287
    hasUploadedData, \* useState(false)            page.tsx:288
    sessionId,       \* localStorage["sessionId"]  page.tsx:313
    message,         \* ChatInput: useState("")    ChatInput.tsx:14
    selectedFile,    \* ChatInput: useState(null)  ChatInput.tsx:15
    calls,           \* the invocations of handleSendMessage, in call order
    net,             \* the requests issued by the page and how they settled
    crashed,         \* a render of the page threw
    now,             \* the value Date.now() returns, in milliseconds
    routes,          \* the invocations of the proxy routes' POST handlers
    backend,         \* the fetch calls the proxy routes made to the backend
    props,           \* the props of a component rendered on its own
    rendered,        \* what the last render of that component produced
    exported         \* what DataTable's handleDownload wrote

vars == <<messages, results, loading, error, uploadedFile, hasUploadedData,
          sessionId, message, selectedFile, calls, net, crashed,
          now, routes, backend, props, rendered, exported>>

----------------------------------------------------------------------------
(* Bounds *)

\* number of sends (invocations of handleSendMessage) explored
MaxSends == 2

\* the clock runs from 0 to MaxNow milliseconds
MaxNow == 2

\* number of requests other clients post to the proxy routes
MaxRequests == 2

\* length of the longest summary given to SummaryCard
MaxSummaryLen == 302

\* length of the longest array of a chart given to ChartView
MaxPoints == 2

\* number of rows of the longest table given to DataTable
MaxRows == 2

----------------------------------------------------------------------------
(* Values *)

\* JavaScript undefined / null (a missing file, a missing reply field)
Undefined == "undefined"
NullStr == "null"
\* results === null
NullResults == [null |-> TRUE]

\* what the user can type into the input box
RawTexts == {"", "   ", " Analyze Wakad "}

\* variant: the text is used as typed
TrimNothing(s) == s

\* String.prototype.trim on the texts above
Trim(s) ==
    CASE s = "" -> ""
      [] s = "   " -> ""
      [] s = " Analyze Wakad " -> "Analyze Wakad"
      [] OTHER -> s

\* the files the user can pick in the file dialog: name, MIME type as the
\* browser reports it (empty when it knows none), extension of the name
FileInfo ==
    [f \in {"data.xlsx", "export", "notes.txt"} |->
        CASE f = "data.xlsx" -> [type |-> "", ext |-> ".xlsx"]
          [] f = "export" -> [type |-> "text/csv", ext |-> ""]
          [] f = "notes.txt" -> [type |-> "text/plain", ext |-> ".txt"]]

Files == DOMAIN FileInfo

\* the fields of a chat reply body; Undefined is a missing field
Responses == {Undefined, "X"}
Charts == {Undefined, "chartC"}
Tables == {Undefined, "tableT"}

ChatReplies == [response : Responses, chart : Charts, table : Tables]
NoReply == [response |-> "none", chart |-> "none", table |-> "none"]

\* the identifiers the upload endpoint can return
UploadIds == {"id-7"}

\* the values an axios.post can throw: no response at all, a non-2xx
\* response whose body has an error field (what the proxy routes send), or
\* one whose body has a message field only
NetworkError ==
    [isAxiosError |-> TRUE, dataError |-> Undefined, dataMessage |-> Undefined,
     message |-> "Network Error"]
HttpError ==
    [isAxiosError |-> TRUE, dataError |-> "Backend error", dataMessage |-> Undefined,
     message |-> "Request failed with status code 500"]
HttpMessageError ==
    [isAxiosError |-> TRUE, dataError |-> Undefined, dataMessage |-> "Not found",
     message |-> "Request failed with status code 404"]
ThrownErrors == {NetworkError, HttpError, HttpMessageError}

\* `session-${Date.now()}`
NewSessionIds == {"session-" \o ToString(now)}

\* page.tsx:384-386 and 389-391, the literals substituted for a missing field
DefaultChart == "defaultChart"
DefaultTable == "defaultTable"

----------------------------------------------------------------------------
(* ChatInput *)

\* variant: the input is never disabled
DisabledNever == FALSE

\* <ChatInput onSend={handleSendMessage} disabled={loading} />
Disabled == loading

\* ChatInput.tsx:30-35, the test of handleFileChange
validTypes ==
    {"application/vnd.ms-excel",
     "application/vnd.openxmlformats-officedocument.spreadsheetml.sheet",
     "text/csv"}

\* variant: only the MIME type is tested
IsValidFileByType(f) == FileInfo[f].type \in validTypes

IsValidFile(f) ==
    \/ FileInfo[f].type \in validTypes
    \/ FileInfo[f].ext = ".xlsx"
    \/ FileInfo[f].ext = ".xls"
    \/ FileInfo[f].ext = ".csv"

\* ChatInput.tsx:37-39, whether handleFileChange shows the alert
FileChangeAlerts(f) == ~IsValidFile(f)

\* onChange of the text input (disabled while loading)
SetMessage(t) ==
    /\ ~crashed
    /\ ~Disabled
    /\ message' = t
    /\ UNCHANGED <<messages, results, loading, error, uploadedFile,
                   hasUploadedData, sessionId, selectedFile, calls, net, crashed>>

\* onChange of the hidden file input (disabled while loading)
handleFileChange(f) ==
    /\ ~crashed
    /\ ~Disabled
    /\ selectedFile' = IF IsValidFile(f) THEN f ELSE selectedFile
    /\ UNCHANGED <<messages, results, loading, error, uploadedFile,
                   hasUploadedData, sessionId, message, calls, net, crashed>>

\* the X button, rendered only while a file is selected
removeFile ==
    /\ ~crashed
    /\ ~Disabled
    /\ selectedFile # Undefined
    /\ selectedFile' = Undefined
    /\ UNCHANGED <<messages, results, loading, error, uploadedFile,
                   hasUploadedData, sessionId, message, calls, net, crashed>>

----------------------------------------------------------------------------
(* handleSendMessage, up to its first await *)

\* a template literal or a plain string: the sequence of its parts
Text(s) == <<s>>

\* page.tsx:325-330 (the id is the number whose decimal string the code
\* stores; the timestamp is not modelled)
UserMessage(messageText) ==
    [id |-> now, text |-> Text(messageText), isUser |-> TRUE]

\* variant: the bot message is marked as a user message
BotMessageAsUser(data) ==
    [id |-> now + 1, text |-> Text(data.response), isUser |-> TRUE]

\* page.tsx:371-376
BotMessage(data) ==
    [id |-> now + 1, text |-> Text(data.response), isUser |-> FALSE]

\* page.tsx:292
BACKEND_URL == ""

\* page.tsx:406-411
ErrorBotMessage(errorMessage) ==
    [id |-> now + 1,
     text |-> <<"Sorry, I encountered an error: ", errorMessage,
                ". Please make sure the backend server is running at ",
                BACKEND_URL, ".">>,
     isUser |-> FALSE]

\* variant: [m, ...prev]
AppendMessageFront(prev, m) == <<m>> \o prev

\* setMessages((prev) => [...prev, m])
AppendMessage(prev, m) == Append(prev, m)

\* variant: the stored file is uploaded again, `file || uploadedFile`
NeedsUploadStored(file) == file # Undefined \/ uploadedFile # Undefined

\* page.tsx:339, `if (file)`: the send uploads first
NeedsUpload(file) == file # Undefined

\* variant: setUploadedFile(file || null) on every send
NextUploadedFileReset(file) == file

\* page.tsx:319-322, the new value of uploadedFile
NextUploadedFile(file) == IF file # Undefined THEN file ELSE uploadedFile

\* page.tsx:319-322, the new value of hasUploadedData
NextHasUploadedData(file) == IF file # Undefined THEN TRUE ELSE hasUploadedData

\* page.tsx:340-342, the multipart form sent to /api/upload
UploadFormData(file, sid) == [file |-> file, session_id |-> sid]

\* page.tsx:358-361, the JSON body sent to /api/chatbot
ChatPayload(messageText, sid, uploadedDataId) ==
    [message |-> messageText, session_id |-> sid]

Request(i, url, body) == [call |-> i, url |-> url, kind |-> "request", body |-> body]
Settled(i, url, kind) == [call |-> i, url |-> url, kind |-> kind, body |-> [none |-> TRUE]]

\* variant: every send generates a session id
SessionIdFresh == CHOOSE s \in NewSessionIds : TRUE

\* page.tsx:313-316: localStorage.getItem("sessionId") || `session-${Date.now()}`
SessionIdOfSend ==
    IF sessionId # NullStr THEN sessionId
    ELSE CHOOSE s \in NewSessionIds : TRUE

\* the body of handleSendMessage(messageText, file) before its first await,
\* page.tsx:312-352 (with a file) or 312-366 (without)
handleSendMessage(messageText, file) ==
    LET sid == SessionIdOfSend
        i == Len(calls) + 1
        call == [text |-> messageText,
                 file |-> file,
                 session |-> sid,
                 hasUploadedData |-> hasUploadedData,   \* the closure's value
                 base |-> Len(messages),
                 pc |-> IF NeedsUpload(file) THEN "upload" ELSE "chat",
                 uploadedDataId |-> NullStr,
                 outcome |-> "pending",
                 reply |-> NoReply]
    IN  /\ sessionId' = sid
        /\ uploadedFile' = NextUploadedFile(file)
        /\ hasUploadedData' = NextHasUploadedData(file)
        /\ messages' = AppendMessage(messages, UserMessage(messageText))
        /\ loading' = TRUE
        /\ error' = NullStr
        /\ calls' = Append(calls, call)
        /\ net' = Append(net,
                    IF NeedsUpload(file)
                    THEN Request(i, "/api/upload", UploadFormData(file, sid))
                    ELSE Request(i, "/api/chatbot", ChatPayload(messageText, sid, NullStr)))
        /\ UNCHANGED <<results, crashed>>

\* ChatInput.tsx:18-25, the form's onSubmit
handleSubmit ==
    /\ ~crashed
    /\ Len(calls) < MaxSends
    /\ IF Trim(message) # "" /\ ~Disabled
       THEN /\ handleSendMessage(Trim(message), selectedFile)
            /\ message' = ""
            /\ selectedFile' = Undefined
       ELSE UNCHANGED vars

----------------------------------------------------------------------------
(* Rendering of the results: page.tsx:543-556 and the chatbot components *)

\* the chart and table objects the names above stand for
ChartContent ==
    [c \in {"chartC", DefaultChart} |->
        IF c = DefaultChart
        THEN [years |-> <<2021, 2022, 2023, 2024>>,
              prices |-> <<250000, 300000, 350000, 400000>>,
              demand |-> <<6, 7, 8, 9>>]
        ELSE [years |-> <<2020, 2021>>, prices |-> <<100, 120>>, demand |-> <<5, 6>>]]

TableContent ==
    [t \in {"tableT", DefaultTable} |->
        IF t = DefaultTable
        THEN <<[location |-> "Wakad", demand |-> "8/10"],
               [location |-> "Aundh", demand |-> "7/10"],
               [location |-> "Viman Nagar", demand |-> "9/10"]>>
        ELSE <<[location |-> "Baner", demand |-> "6/10"]>>]

\* a JavaScript value used as a condition (`x || y`, `if (x)`)
Truthy(v) == v \notin {Undefined, NullStr, ""}

\* SummaryCard.tsx:12, summary.length: a TypeError when summary is undefined
SummaryCardThrows(summary) == summary \in {Undefined, NullStr}

\* ChartView.tsx:28, chartData.years.map: a TypeError when there is no years
ChartViewThrows(chart) == chart \notin DOMAIN ChartContent

\* DataTable.tsx:38 and 57-59: falsy data is 'No data available', else flatMap
DataTableThrows(table) == Truthy(table) /\ table \notin DOMAIN TableContent

\* ResultsPanel.tsx:20-41
ResultsPanelThrows(res) ==
    /\ res # NullResults
    /\ \/ SummaryCardThrows(res.summary)
       \/ ChartViewThrows(res.chart)
       \/ DataTableThrows(res.table)

\* page.tsx:544-556: ResultsPanel is rendered only when hasUploadedData
PageRenderThrows(res, hud) == hud /\ ResultsPanelThrows(res)

\* what the right-hand panel of the page is given to show
NoDataCard == [card |-> "No Data Uploaded Yet"]
EmptyPanel == [card |-> "Upload an Excel file and send a query"]
PanelView ==
    IF ~hasUploadedData THEN NoDataCard
    ELSE IF results = NullResults THEN EmptyPanel
    ELSE [summary |-> results.summary, chart |-> results.chart, table |-> results.table]

----------------------------------------------------------------------------
(* handleSendMessage, after its awaits *)

\* a response body that is JSON null
NullBody == [null |-> TRUE]

\* reading a property of null: a TypeError, not an axios error
TypeErrorThrown ==
    [isAxiosError |-> FALSE, dataError |-> Undefined, dataMessage |-> Undefined,
     message |-> "Cannot read properties of null"]

\* variant: an axios error always gives its own message
ErrorMessageOfOwnMessage(err) ==
    IF err.isAxiosError THEN err.message ELSE "An unexpected error occurred"

\* page.tsx:400-402
ErrorMessageOf(err) ==
    IF err.isAxiosError
    THEN IF Truthy(err.dataError) THEN err.dataError
         ELSE IF Truthy(err.dataMessage) THEN err.dataMessage
         ELSE err.message
    ELSE "An unexpected error occurred"

\* variant: a missing chart or table keeps the one already shown
ResultsDataMerged(data) ==
    [summary |-> data.response,
     chart |-> IF Truthy(data.chart) THEN data.chart
               ELSE IF results # NullResults THEN results.chart ELSE DefaultChart,
     table |-> IF Truthy(data.table) THEN data.table
               ELSE IF results # NullResults THEN results.table ELSE DefaultTable]

\* page.tsx:381-393
ResultsData(data) ==
    [summary |-> data.response,
     chart |-> IF Truthy(data.chart) THEN data.chart ELSE DefaultChart,
     table |-> IF Truthy(data.table) THEN data.table ELSE DefaultTable]

\* variant: `if (file)`
ShowsResultsFileOnly(call) == call.file # Undefined

\* page.tsx:380, `hasUploadedData || file` as the invocation sees them
ShowsResults(call) == call.hasUploadedData \/ call.file # Undefined

\* page.tsx:379-398
NextResults(call, data) ==
    IF ShowsResults(call) THEN ResultsData(data) ELSE NullResults

\* variant: the catch block sets error but appends nothing
CatchMessagesSilent(prev, errorMessage) == prev

\* the messages the catch block leaves, page.tsx:406-412
CatchMessages(prev, errorMessage) ==
    AppendMessage(prev, ErrorBotMessage(errorMessage))

\* variant: the catch block without the finally block
CatchNoFinally(i, err, settled) ==
    /\ error' = ErrorMessageOf(err)
    /\ messages' = CatchMessages(messages, ErrorMessageOf(err))
    /\ loading' = loading
    /\ calls' = [calls EXCEPT ![i].pc = "done", ![i].outcome = "error"]
    /\ net' = Append(net, [settled EXCEPT !.body = err])
    /\ crashed' = PageRenderThrows(results, hasUploadedData)
    /\ UNCHANGED <<results, uploadedFile, hasUploadedData, sessionId,
                   message, selectedFile>>

\* page.tsx:399-415, catch and finally, for invocation i
Catch(i, err, settled) ==
    /\ error' = ErrorMessageOf(err)
    /\ messages' = CatchMessages(messages, ErrorMessageOf(err))
    /\ loading' = FALSE
    /\ calls' = [calls EXCEPT ![i].pc = "done", ![i].outcome = "error"]
    /\ net' = Append(net, [settled EXCEPT !.body = err])
    /\ crashed' = PageRenderThrows(results, hasUploadedData)
    /\ UNCHANGED <<results, uploadedFile, hasUploadedData, sessionId,
                   message, selectedFile>>

\* what the invocation does once its upload has returned data, page.tsx:354-366
AfterUpload(i, data) ==
    /\ calls' = [calls EXCEPT ![i].pc = "chat", ![i].uploadedDataId = data.id]
    /\ net' = net \o <<Settled(i, "/api/upload", "response"),
                       Request(i, "/api/chatbot",
                               ChatPayload(calls[i].text, calls[i].session, data.id))>>
    /\ UNCHANGED <<messages, results, loading, error, uploadedFile,
                   hasUploadedData, sessionId, message, selectedFile, crashed>>

\* the upload request of invocation i resolves (2xx) with body data
UploadReturn(i, data) ==
    /\ ~crashed
    /\ calls[i].pc = "upload"
    /\ IF data = NullBody
       THEN Catch(i, TypeErrorThrown, Settled(i, "/api/upload", "response"))
       ELSE AfterUpload(i, data)

\* variant: the upload's failure is swallowed and the chat request follows
AfterUploadErrorSwallowed(i, err) ==
    /\ calls' = [calls EXCEPT ![i].pc = "chat"]
    /\ net' = net \o <<Settled(i, "/api/upload", "error"),
                       Request(i, "/api/chatbot",
                               ChatPayload(calls[i].text, calls[i].session, NullStr))>>
    /\ UNCHANGED <<messages, results, loading, error, uploadedFile,
                   hasUploadedData, sessionId, message, selectedFile, crashed>>

\* what the invocation does once its upload has thrown, page.tsx:399-415
AfterUploadError(i, err) == Catch(i, err, Settled(i, "/api/upload", "error"))

\* the upload request of invocation i rejects (no response, or non-2xx)
UploadThrow(i, err) ==
    /\ ~crashed
    /\ calls[i].pc = "upload"
    /\ AfterUploadError(i, err)

\* page.tsx:368-398 and the finally, for invocation i and reply body data
AfterChat(i, data) ==
    /\ messages' = AppendMessage(messages, BotMessage(data))
    /\ results' = NextResults(calls[i], data)
    /\ loading' = FALSE
    /\ calls' = [calls EXCEPT ![i].pc = "done", ![i].outcome = "ok", ![i].reply = data]
    /\ net' = Append(net, Settled(i, "/api/chatbot", "response"))
    /\ crashed' = PageRenderThrows(results', hasUploadedData)
    /\ UNCHANGED <<error, uploadedFile, hasUploadedData, sessionId,
                   message, selectedFile>>

\* the chat request of invocation i resolves (2xx) with body data
ChatReturn(i, data) ==
    /\ ~crashed
    /\ calls[i].pc = "chat"
    /\ IF data = NullBody
       THEN Catch(i, TypeErrorThrown, Settled(i, "/api/chatbot", "response"))
       ELSE AfterChat(i, data)

\* variant: a chat request that rejects also clears the results
ChatThrowClearsResults(i, err) ==
    /\ ~crashed
    /\ calls[i].pc = "chat"
    /\ error' = ErrorMessageOf(err)
    /\ messages' = CatchMessages(messages, ErrorMessageOf(err))
    /\ loading' = FALSE
    /\ results' = NullResults
    /\ calls' = [calls EXCEPT ![i].pc = "done", ![i].outcome = "error"]
    /\ net' = Append(net, [Settled(i, "/api/chatbot", "error") EXCEPT !.body = err])
    /\ crashed' = FALSE
    /\ UNCHANGED <<uploadedFile, hasUploadedData, sessionId, message, selectedFile>>

\* the chat request of invocation i rejects (no response, or non-2xx)
ChatThrow(i, err) ==
    /\ ~crashed
    /\ calls[i].pc = "chat"
    /\ Catch(i, err, Settled(i, "/api/chatbot", "error"))

----------------------------------------------------------------------------
(* The page *)

\* no component is rendered on its own
NoProps == [component |-> "none"]
NotRendered == [kind |-> "none"]
NothingExported == [kind |-> "none"]

Init ==
    /\ messages = <<>>
    /\ results = NullResults
    /\ loading = FALSE
    /\ error = NullStr
    /\ uploadedFile = Undefined
    /\ hasUploadedData = FALSE
    /\ sessionId = NullStr
    /\ message = ""
    /\ selectedFile = Undefined
    /\ calls = <<>>
    /\ net = <<>>
    /\ crashed = FALSE
    /\ now = 0
    /\ routes = <<>>
    /\ backend = <<>>
    /\ props = NoProps
    /\ rendered = NotRendered
    /\ exported = NothingExported

UploadBodies == [id : UploadIds] \cup {NullBody}
ChatBodies == ChatReplies \cup {NullBody}

\* the page alone: the clock stands still and what happens behind
\* axios.post is left open
serverVars == <<now, routes, backend>>

\* the components rendered on their own
renderVars == <<props, rendered, exported>>

Next ==
    \/ \E t \in RawTexts : SetMessage(t) /\ UNCHANGED <<serverVars, renderVars>>
    \/ \E f \in Files : handleFileChange(f) /\ UNCHANGED <<serverVars, renderVars>>
    \/ removeFile /\ UNCHANGED <<serverVars, renderVars>>
    \/ handleSubmit /\ UNCHANGED <<serverVars, renderVars>>
    \/ \E i \in 1..Len(calls), data \in UploadBodies :
          UploadReturn(i, data) /\ UNCHANGED <<serverVars, renderVars>>
    \/ \E i \in 1..Len(calls), err \in ThrownErrors :
          UploadThrow(i, err) /\ UNCHANGED <<serverVars, renderVars>>
    \/ \E i \in 1..Len(calls), data \in ChatBodies :
          ChatReturn(i, data) /\ UNCHANGED <<serverVars, renderVars>>
    \/ \E i \in 1..Len(calls), err \in ThrownErrors :
          ChatThrow(i, err) /\ UNCHANGED <<serverVars, renderVars>>

Spec == Init /\ [][Next]_vars

----------------------------------------------------------------------------
(* The proxy routes: src/app/api/chatbot/route.ts, src/app/api/upload/route.ts *)

pageVars == <<messages, results, loading, error, uploadedFile, hasUploadedData,
              sessionId, message, selectedFile, calls, net, crashed>>

\* an incoming request: valid says whether its body can be read
\* (request.json() for the chat route, request.formData() for the upload route)
MalformedRequest == [valid |-> FALSE, body |-> NullBody]
ChatRequests ==
    {[valid |-> TRUE, body |-> [message |-> "Analyze Wakad", session_id |-> "session-0"]],
     MalformedRequest}
UploadRequests ==
    {[valid |-> TRUE, body |-> [file |-> "data.xlsx", session_id |-> "session-0"]],
     MalformedRequest}

\* what the route's fetch to the backend does: it resolves with a reply
\* (status, statusText, a body that is JSON or not) or it rejects
Reply(status, statusText, json, body) ==
    [kind |-> "reply", status |-> status, statusText |-> statusText,
     json |-> json, body |-> body, message |-> ""]
Reject(msg) ==
    [kind |-> "reject", status |-> 0, statusText |-> "",
     json |-> FALSE, body |-> NullBody, message |-> msg]

FullChatReply == [response |-> "X", chart |-> "chartC", table |-> "tableT"]

ChatBackendOutcomes ==
    {Reply(200, "OK", TRUE, FullChatReply),
     Reply(400, "Bad Request", TRUE, [error |-> "Message is required"]),
     Reply(502, "Bad Gateway", FALSE, NullBody),
     Reject("fetch failed")}

UploadBackendOutcomes ==
    {Reply(201, "Created", TRUE, [id |-> "id-7"]),
     Reply(400, "Bad Request", TRUE, [error |-> "No file provided"]),
     Reply(200, "OK", FALSE, NullBody),
     Reject("fetch failed")}

\* response.ok
ResponseOk(o) == o.status \in 200..299

\* NextResponse.json(data, { status })
JsonResponse(data, status) == [status |-> status, body |-> data]
NoResponse == [status |-> 0, body |-> NullBody]

\* the message of the SyntaxError response.json() throws on a non-JSON body
JsonSyntaxError == "Unexpected token < in JSON at position 0"
\* the message of the TypeError request.formData() throws
FormDataError == "Failed to parse body as FormData."

\* a chat route that answers every JSON reply with status 200
ChatbotAfterFetchOk(o) ==
    IF o.kind = "reject" \/ ~o.json
    THEN JsonResponse([error |-> "Backend error"], 500)
    ELSE JsonResponse(o.body, 200)

\* chatbot/route.ts:14-18, once fetch has settled with o
ChatbotAfterFetch(o) ==
    IF o.kind = "reject" \/ ~o.json
    THEN JsonResponse([error |-> "Backend error"], 500)
    ELSE JsonResponse(o.body, o.status)

\* upload/route.ts:19-25, the catch block
UploadCatch(msg) ==
    JsonResponse([error |-> IF Truthy(msg) THEN msg ELSE "Upload failed"], 500)

\* an upload route that passes the backend's status and body through
UploadAfterFetchPassthrough(o) ==
    IF o.kind = "reject" THEN UploadCatch(o.message)
    ELSE IF ~o.json THEN UploadCatch(JsonSyntaxError)
    ELSE JsonResponse(o.body, o.status)

\* upload/route.ts:13-25, once fetch has settled with o
UploadAfterFetch(o) ==
    IF o.kind = "reject" THEN UploadCatch(o.message)
    ELSE IF ~ResponseOk(o) THEN UploadCatch("Backend error: " \o o.statusText)
    ELSE IF ~o.json THEN UploadCatch(JsonSyntaxError)
    ELSE JsonResponse(o.body, 200)

\* chatbot/route.ts:8-12, the fetch calls invocation j makes
ChatbotFetch(j, body) ==
    <<[inv |-> j, url |-> "/api/chatbot/chat/", body |-> body]>>

\* variant: the upload route posts to the backend a second time
UploadFetchRetried(j, body) ==
    <<[inv |-> j, url |-> "/api/data-upload/upload/", body |-> body],
      [inv |-> j, url |-> "/api/data-upload/upload/", body |-> body]>>

\* upload/route.ts:8-11, the fetch calls invocation j makes
UploadFetch(j, body) ==
    <<[inv |-> j, url |-> "/api/data-upload/upload/", body |-> body]>>

Invocation(route, call, req, pc, response) ==
    [route |-> route, call |-> call, request |-> req, pc |-> pc,
     outcome |-> Reject(""), response |-> response]

\* chatbot/route.ts:3-12: POST up to the await of fetch; request.json() is
\* outside the try, so what it throws leaves the handler
ChatbotStart(call, req) ==
    LET j == Len(routes) + 1
    IN  IF req.valid
        THEN /\ routes' = Append(routes,
                            Invocation("/api/chatbot", call, req, "fetch", NoResponse))
             /\ backend' = backend \o ChatbotFetch(j, req.body)
        ELSE /\ routes' = Append(routes,
                            Invocation("/api/chatbot", call, req, "threw", NoResponse))
             /\ backend' = backend

\* upload/route.ts:3-11: POST up to the await of fetch; request.formData() is
\* inside the try
UploadStart(call, req) ==
    LET j == Len(routes) + 1
    IN  IF req.valid
        THEN /\ routes' = Append(routes,
                            Invocation("/api/upload", call, req, "fetch", NoResponse))
             /\ backend' = backend \o UploadFetch(j, req.body)
        ELSE /\ routes' = Append(routes,
                            Invocation("/api/upload", call, req, "returned",
                                       UploadCatch(FormDataError)))
             /\ backend' = backend

\* the rest of POST for invocation j, whose fetch settled with o
RouteFinish(j, o) ==
    routes' = [routes EXCEPT
                 ![j].pc = "returned",
                 ![j].outcome = o,
                 ![j].response = IF routes[j].route = "/api/chatbot"
                                 THEN ChatbotAfterFetch(o)
                                 ELSE UploadAfterFetch(o)]

\* another client posts req to /api/chatbot
ChatbotPOST(req) ==
    /\ Len(routes) < MaxRequests
    /\ ChatbotStart(0, req)
    /\ UNCHANGED <<pageVars, now, renderVars>>

\* another client posts req to /api/upload
UploadPOST(req) ==
    /\ Len(routes) < MaxRequests
    /\ UploadStart(0, req)
    /\ UNCHANGED <<pageVars, now, renderVars>>

\* the backend answers the fetch of chat invocation j
ChatbotFetchSettles(j, o) ==
    /\ routes[j].route = "/api/chatbot"
    /\ routes[j].pc = "fetch"
    /\ RouteFinish(j, o)
    /\ UNCHANGED <<pageVars, now, backend, renderVars>>

\* the backend answers the fetch of upload invocation j
UploadFetchSettles(j, o) ==
    /\ routes[j].route = "/api/upload"
    /\ routes[j].pc = "fetch"
    /\ RouteFinish(j, o)
    /\ UNCHANGED <<pageVars, now, backend, renderVars>>

RouteNext ==
    \/ \E req \in ChatRequests : ChatbotPOST(req)
    \/ \E req \in UploadRequests : UploadPOST(req)
    \/ \E j \in 1..Len(routes), o \in ChatBackendOutcomes : ChatbotFetchSettles(j, o)
    \/ \E j \in 1..Len(routes), o \in UploadBackendOutcomes : UploadFetchSettles(j, o)

\* the two routes, called by any client
RouteSpec == Init /\ [][RouteNext]_vars

----------------------------------------------------------------------------
(* The page, the clock and the routes together *)

\* Date.now() moves on by a millisecond
Tick ==
    /\ now < MaxNow
    /\ now' = now + 1
    /\ UNCHANGED <<pageVars, routes, backend, renderVars>>

\* the request invocation i of handleSendMessage is waiting for
PendingUrl(i) == IF calls[i].pc = "upload" THEN "/api/upload" ELSE "/api/chatbot"
RequestBody(i, url) ==
    net[CHOOSE k \in 1..Len(net) :
           net[k].call = i /\ net[k].kind = "request" /\ net[k].url = url].body

\* the route invocations serving the request of invocation i to url
InvocationsOf(i, url) ==
    {j \in 1..Len(routes) : routes[j].call = i /\ routes[j].route = url}

\* the request invocation i is waiting for reaches its route
RouteReceives(i) ==
    /\ calls[i].pc \in {"upload", "chat"}
    /\ InvocationsOf(i, PendingUrl(i)) = {}
    /\ LET req == [valid |-> TRUE, body |-> RequestBody(i, PendingUrl(i))]
       IN  IF calls[i].pc = "upload" THEN UploadStart(i, req)
           ELSE ChatbotStart(i, req)
    /\ UNCHANGED <<pageVars, now, renderVars>>

\* what axios.post throws for a response whose status is not 2xx
AxiosError(resp) ==
    [isAxiosError |-> TRUE, dataError |-> resp.body.error, dataMessage |-> Undefined,
     message |-> "Request failed with status code " \o ToString(resp.status)]

\* the response of the upload route reaches invocation i: page.tsx:346-354
UploadDelivered(i) ==
    /\ calls[i].pc = "upload"
    /\ \E j \in InvocationsOf(i, "/api/upload") :
          /\ routes[j].pc = "returned"
          /\ IF ResponseOk(routes[j].response)
             THEN UploadReturn(i, routes[j].response.body)
             ELSE UploadThrow(i, AxiosError(routes[j].response))
    /\ UNCHANGED <<serverVars, renderVars>>

\* the response of the chat route reaches invocation i: page.tsx:366-368
ChatDelivered(i) ==
    /\ calls[i].pc = "chat"
    /\ \E j \in InvocationsOf(i, "/api/chatbot") :
          /\ routes[j].pc = "returned"
          /\ IF ResponseOk(routes[j].response)
             THEN ChatReturn(i, routes[j].response.body)
             ELSE ChatThrow(i, AxiosError(routes[j].response))
    /\ UNCHANGED <<serverVars, renderVars>>

\* the request invocation i is waiting for never reaches its route
NetworkFails(i) ==
    /\ calls[i].pc \in {"upload", "chat"}
    /\ InvocationsOf(i, PendingUrl(i)) = {}
    /\ IF calls[i].pc = "upload" THEN UploadThrow(i, NetworkError)
       ELSE ChatThrow(i, NetworkError)
    /\ UNCHANGED <<serverVars, renderVars>>

\* what the backend does to the requests of the page: it answers with
\* JSON, with a 2xx status or not, or the chat fetch rejects
SystemChatOutcomes == {o \in ChatBackendOutcomes : o.json \/ o.kind = "reject"}
SystemUploadOutcomes == {o \in UploadBackendOutcomes : o.json}

SystemNext ==
    \/ Tick
    \/ SetMessage(" Analyze Wakad ") /\ UNCHANGED <<serverVars, renderVars>>
    \/ handleFileChange("data.xlsx") /\ UNCHANGED <<serverVars, renderVars>>
    \/ handleSubmit /\ UNCHANGED <<serverVars, renderVars>>
    \/ \E i \in 1..Len(calls) : RouteReceives(i)
    \/ \E j \in 1..Len(routes), o \in SystemChatOutcomes : ChatbotFetchSettles(j, o)
    \/ \E j \in 1..Len(routes), o \in SystemUploadOutcomes : UploadFetchSettles(j, o)
    \/ \E i \in 1..Len(calls) : UploadDelivered(i)
    \/ \E i \in 1..Len(calls) : ChatDelivered(i)
    \/ \E i \in 1..Len(calls) : NetworkFails(i)

\* the page posting to the routes, the routes posting to the backend, and
\* the clock
SystemSpec == Init /\ [][SystemNext]_vars

----------------------------------------------------------------------------
(* The components rendered on their own: SummaryCard, ChartView, DataTable *)

\* SummaryCard.tsx:12-13, the length from which a summary is cut
SummaryLimit == 300

\* a summary of n UTF-16 code units; unit k is the digit k % 10
SummaryText(n) == [k \in 1..n |-> ToString(k % 10)]

SummaryProps ==
    {[component |-> "SummaryCard", summary |-> SummaryText(n)] : n \in 0..MaxSummaryLen}

\* '...'
Ellipsis == <<".", ".", ".">>

\* variant: a summary of exactly the limit is cut as well
TruncatedSummaryFromLimit(summary) ==
    IF Len(summary) >= SummaryLimit
    THEN SubSeq(summary, 1, SummaryLimit) \o Ellipsis
    ELSE summary

\* SummaryCard.tsx:12-14
TruncatedSummary(summary) ==
    IF Len(summary) > SummaryLimit
    THEN SubSeq(summary, 1, SummaryLimit) \o Ellipsis
    ELSE summary

\* SummaryCard.tsx:28-30, 'Summary truncated for readability...'
ShowsTruncationNotice(summary) == Len(summary) > SummaryLimit

\* SummaryCard.tsx:10-33
SummaryCard(summary) ==
    [kind |-> "SummaryCard",
     text |-> TruncatedSummary(summary),
     notice |-> ShowsTruncationNotice(summary)]

\* a render of SummaryCard with the props
RenderSummaryCard ==
    /\ props.component = "SummaryCard"
    /\ rendered' = SummaryCard(props.summary)
    /\ UNCHANGED <<pageVars, serverVars, props, exported>>

\* the arrays of at most n entries over S
SeqsUpTo(S, n) == UNION {[1..k -> S] : k \in 0..n}

ChartProps ==
    {[component |-> "ChartView",
      chartData |-> [years |-> ys, prices |-> ps, demand |-> ds]] :
        ys \in SeqsUpTo({2020, 2021}, MaxPoints),
        ps \in SeqsUpTo({100, 120}, MaxPoints),
        ds \in SeqsUpTo({5}, MaxPoints)}

\* ChartView.tsx:28-32, the object built for one year; an array read past
\* its end is undefined, here a field the point does not have
ChartPoint(chartData, index) ==
    LET hasPrice == index <= Len(chartData.prices)
        hasDemand == index <= Len(chartData.demand)
    IN  CASE hasPrice /\ hasDemand ->
               [year |-> chartData.years[index],
                price |-> chartData.prices[index],
                demand |-> chartData.demand[index]]
          [] hasPrice /\ ~hasDemand ->
               [year |-> chartData.years[index], price |-> chartData.prices[index]]
          [] ~hasPrice /\ hasDemand ->
               [year |-> chartData.years[index], demand |-> chartData.demand[index]]
          [] OTHER -> [year |-> chartData.years[index]]

\* variant: one point per entry of prices
ChartViewByPrices(chartData) ==
    [kind |-> "ChartView",
     data |-> [index \in 1..Len(chartData.prices) |->
                 [year |-> IF index <= Len(chartData.years)
                           THEN chartData.years[index] ELSE 0,
                  price |-> chartData.prices[index]]]]

\* ChartView.tsx:26-32, the data handed to the chart
ChartView(chartData) ==
    [kind |-> "ChartView",
     data |-> [index \in 1..Len(chartData.years) |-> ChartPoint(chartData, index)]]

\* a render of ChartView with the props
RenderChartView ==
    /\ props.component = "ChartView"
    /\ rendered' = ChartView(props.chartData)
    /\ UNCHANGED <<pageVars, serverVars, props, exported>>
\* the values of a row's fields, as they come out of JSON
TextValue(s) == [type |-> "string", v |-> s]
NumberValue(digits) == [type |-> "number", v |-> digits]
NullValue == [type |-> "null", v |-> ""]

\* String(value)
String(value) == IF value.type = "null" THEN "null" ELSE value.v

\* the rows: the fields of an object in the order Object.keys lists them
EmptyRow == <<>>
AreaRow == <<[key |-> "area", value |-> TextValue("Wakad")]>>
PriceAreaRow ==
    <<[key |-> "price", value |-> NumberValue("75")],
      [key |-> "area", value |-> TextValue("Aundh")]>>
AreaBuiltRow ==
    <<[key |-> "area", value |-> TextValue("Baner")],
      [key |-> "year_built", value |-> NullValue]>>
TableRows == {EmptyRow, AreaRow, PriceAreaRow, AreaBuiltRow}

\* data is an array of rows, or is missing (undefined or null)
TableProps ==
    {[component |-> "DataTable", missing |-> FALSE, data |-> d] :
        d \in SeqsUpTo(TableRows, MaxRows)}
    \cup {[component |-> "DataTable", missing |-> TRUE, data |-> <<>>]}

\* Object.keys(row)
ObjectKeys(row) == [i \in 1..Len(row) |-> row[i].key]

\* data.flatMap((row) => Object.keys(row))
RECURSIVE FlatKeys(_)
FlatKeys(data) ==
    IF data = <<>> THEN <<>>
    ELSE ObjectKeys(Head(data)) \o FlatKeys(Tail(data))

\* Array.from(new Set(keys)): each key once, where it first occurs
RECURSIVE ArrayFromSet(_)
ArrayFromSet(keys) ==
    IF keys = <<>> THEN <<>>
    ELSE LET front == ArrayFromSet(SubSeq(keys, 1, Len(keys) - 1))
             last == keys[Len(keys)]
         IN  IF \E i \in 1..Len(front) : front[i] = last
             THEN front ELSE Append(front, last)

\* variant: the columns are the keys of the first row
ColumnsOfFirstRow(data) == ObjectKeys(Head(data))

\* DataTable.tsx:57-59
Columns(data) == ArrayFromSet(FlatKeys(data))

\* DataTable.tsx:89, column.replace(/_/g, " ")
ColumnLabel(column) == IF column = "year_built" THEN "year built" ELSE column

\* DataTable.tsx:103, row[column] !== undefined ? String(row[column]) : "-"
TableCell(row, column) ==
    IF \E i \in 1..Len(row) : row[i].key = column
    THEN String(row[CHOOSE i \in 1..Len(row) : row[i].key = column].value)
    ELSE "-"

\* DataTable.tsx:23 and 38, !data || data.length === 0
NoTableData(p) == p.missing \/ Len(p.data) = 0

\* DataTable.tsx:38-112
DataTable(p) ==
    IF NoTableData(p)
    THEN [kind |-> "DataTable", text |-> "No data available",
          columns |-> <<>>, headers |-> <<>>, rows |-> <<>>]
    ELSE LET columns == Columns(p.data)
         IN  [kind |-> "DataTable", text |-> "",
              columns |-> columns,
              headers |-> [c \in 1..Len(columns) |-> ColumnLabel(columns[c])],
              rows |-> [r \in 1..Len(p.data) |->
                          [c \in 1..Len(columns) |-> TableCell(p.data[r], columns[c])]]]

\* a render of DataTable with the props
RenderDataTable ==
    /\ props.component = "DataTable"
    /\ rendered' = DataTable(props)
    /\ UNCHANGED <<pageVars, serverVars, props, exported>>

\* DataTable.tsx:22-36
handleDownload ==
    /\ props.component = "DataTable"
    /\ exported' = IF NoTableData(props) THEN exported
                   ELSE [kind |-> "xlsx", sheet |-> "Filtered Data", rows |-> props.data]
    /\ UNCHANGED <<pageVars, serverVars, props, rendered>>

RenderInit ==
    /\ messages = <<>>
    /\ results = NullResults
    /\ loading = FALSE
    /\ error = NullStr
    /\ uploadedFile = Undefined
    /\ hasUploadedData = FALSE
    /\ sessionId = NullStr
    /\ message = ""
    /\ selectedFile = Undefined
    /\ calls = <<>>
    /\ net = <<>>
    /\ crashed = FALSE
    /\ now = 0
    /\ routes = <<>>
    /\ backend = <<>>
    /\ props \in SummaryProps \cup ChartProps \cup TableProps
    /\ rendered = NotRendered
    /\ exported = NothingExported

RenderNext ==
    \/ RenderSummaryCard
    \/ RenderChartView
    \/ RenderDataTable
    \/ handleDownload

\* each component given props and rendered
RenderSpec == RenderInit /\ [][RenderNext]_vars
----------------------------------------------------------------------------
(* Properties *)

Calls == 1..Len(calls)
Events == 1..Len(net)

IsRequest(k, url) == net[k].kind = "request" /\ net[k].url = url
IsSettled(k, url, kind) == net[k].kind = kind /\ net[k].url = url

\* the catch block's message, recognised by its fixed parts
IsErrorMessage(m) ==
    /\ ~m.isUser
    /\ Len(m.text) = 5
    /\ m.text[1] = "Sorry, I encountered an error: "

\* the end of the messages invocation i has appended so far
MessagesEnd(i) == IF i < Len(calls) THEN calls[i + 1].base ELSE Len(messages)

\* C1: a send with a file issues its upload request, and issues its chat
\* request only after that upload has returned; a send whose upload failed
\* issues no chat request.
C1_UploadBeforeChat ==
    /\ \A i \in Calls :
         calls[i].file # Undefined =>
           \E k \in Events : net[k].call = i /\ IsRequest(k, "/api/upload")
    /\ \A k \in Events :
         (IsRequest(k, "/api/chatbot") /\ calls[net[k].call].file # Undefined) =>
           \E h \in 1..(k - 1) : \E j \in (h + 1)..(k - 1) :
              /\ net[h].call = net[k].call /\ IsRequest(h, "/api/upload")
              /\ net[j].call = net[k].call /\ IsSettled(j, "/api/upload", "response")
    /\ \A k \in Events :
         IsSettled(k, "/api/upload", "error") =>
           ~\E j \in Events : net[j].call = net[k].call /\ IsRequest(j, "/api/chatbot")

\* one send with a file has failed in its upload and is over, another has
\* uploaded and issued its chat request
C1_Witness ==
    \E i, j \in Calls :
       /\ calls[i].file # Undefined /\ calls[i].pc = "done"
       /\ \E k \in Events : net[k].call = i /\ IsSettled(k, "/api/upload", "error")
       /\ calls[j].file # Undefined
       /\ \E k \in Events : net[k].call = j /\ IsRequest(k, "/api/chatbot")

\* C2: a send with no file attached issues no request to /api/upload,
\* whatever files earlier sends carried.
C2_NoFileNoUpload ==
    \A k \in Events :
       net[k].url = "/api/upload" => calls[net[k].call].file # Undefined

\* a send without a file has completed after a send that carried one
C2_Witness ==
    \E i, j \in Calls :
       /\ i < j
       /\ calls[i].file # Undefined
       /\ calls[j].file = Undefined /\ calls[j].pc = "done" /\ calls[j].outcome = "ok"

\* the request body has a field, beyond message and session_id, holding v
CarriesId(body, v) ==
    \E f \in (DOMAIN body) \ {"message", "session_id"} : body[f] = v

\* C3: when a send's upload succeeded, the identifier it returned is part of
\* the chat request of the same send.
C3_IdAttached ==
    \A k \in Events :
       (IsRequest(k, "/api/chatbot") /\ calls[net[k].call].uploadedDataId # NullStr) =>
          CarriesId(net[k].body, calls[net[k].call].uploadedDataId)

\* C4: a send that ended in the catch block has appended its user message and
\* exactly one bot message, the error message, and no bot response.
C4_OneErrorMessage ==
    \A i \in Calls :
       (calls[i].pc = "done" /\ calls[i].outcome = "error") =>
          /\ MessagesEnd(i) = calls[i].base + 2
          /\ messages[calls[i].base + 1].isUser
          /\ messages[calls[i].base + 1].text = Text(calls[i].text)
          /\ IsErrorMessage(messages[calls[i].base + 2])

\* one send failed in its upload request and a later one in its chat request
C4_Witness ==
    \E i, j \in Calls :
       /\ i < j
       /\ calls[i].outcome = "error" /\ calls[j].outcome = "error"
       /\ \E k \in Events : net[k].call = i /\ IsSettled(k, "/api/upload", "error")
       /\ \E k \in Events : net[k].call = j /\ IsSettled(k, "/api/chatbot", "error")

\* C5: every step leaves the message list unchanged or adds one message at
\* its end; the messages already there keep their place and content.
C5_AppendOnly ==
    [][\/ messages' = messages
       \/ /\ Len(messages') = Len(messages) + 1
          /\ SubSeq(messages', 1, Len(messages)) = messages]_vars

\* two sends have completed, one with a reply and one with an error
C5_Witness ==
    /\ Len(messages) = 4
    /\ \E i, j \in Calls : calls[i].outcome = "ok" /\ calls[j].outcome = "error"

\* the last invocation has completed with a chat reply
LastCompletedOk ==
    /\ Len(calls) > 0
    /\ calls[Len(calls)].pc = "done"
    /\ calls[Len(calls)].outcome = "ok"

LastReply == calls[Len(calls)].reply

\* the reply has response, chart and table
FullReply(r) == r.response # Undefined /\ r.chart # Undefined /\ r.table # Undefined

\* some send so far, the current one included, had a file attached
FileAttachedSoFar == \E j \in Calls : calls[j].file # Undefined

InFlight == {i \in Calls : calls[i].pc # "done"}

RequestsOf(i, url) == {k \in Events : net[k].call = i /\ IsRequest(k, url)}

\* C7: at most one invocation of handleSendMessage is in flight, and then
\* loading is true; a request is issued only when every earlier request has
\* settled; an invocation issues at most one upload and one chat request,
\* the upload first.
C7_OneSendInFlight ==
    /\ Cardinality(InFlight) <= 1
    /\ InFlight # {} => loading
    /\ \A k \in Events :
         net[k].kind = "request" =>
            Cardinality({j \in 1..(k - 1) : net[j].kind = "request"}) =
            Cardinality({j \in 1..(k - 1) : net[j].kind # "request"})
    /\ \A i \in Calls :
         /\ Cardinality(RequestsOf(i, "/api/upload")) <= 1
         /\ Cardinality(RequestsOf(i, "/api/chatbot")) <= 1
         /\ \A u \in RequestsOf(i, "/api/upload") :
              \A c \in RequestsOf(i, "/api/chatbot") : u < c

\* the second send, with a file, is waiting for its chat reply, and the user
\* had typed and submitted while the first was done
C7_Witness ==
    /\ Len(calls) = 2
    /\ calls[1].pc = "done"
    /\ calls[2].pc = "chat" /\ calls[2].file # Undefined
    /\ loading

\* the latest send up to j that had a file attached, 0 if none
RECURSIVE LastFileCall(_)
LastFileCall(j) ==
    IF j = 0 THEN 0
    ELSE IF calls[j].file # Undefined THEN j
    ELSE LastFileCall(j - 1)

\* the file of that send, Undefined if none
LastFile(j) == IF LastFileCall(j) = 0 THEN Undefined ELSE calls[LastFileCall(j)].file

\* a request of invocation i whose body holds file f
TransmitsFile(i, f) ==
    \E k \in Events :
       /\ net[k].call = i /\ net[k].kind = "request"
       /\ "file" \in DOMAIN net[k].body
       /\ net[k].body.file = f

C10_NoRenderFailure == ~crashed

----------------------------------------------------------------------------
(* Properties of the proxy routes *)

Returned(j) == routes[j].pc = "returned"
JsonReply(j) == routes[j].outcome.kind = "reply" /\ routes[j].outcome.json

\* C11: whenever the backend answers the chat route with a JSON body, with
\* a 2xx status or not, the route's response has the backend's status and
\* the backend's body, both unchanged.
C11_ChatRelay ==
    \A j \in 1..Len(routes) :
       (routes[j].route = "/api/chatbot" /\ Returned(j) /\ JsonReply(j)) =>
          routes[j].response =
             [status |-> routes[j].outcome.status, body |-> routes[j].outcome.body]

\* the backend answered 400 with a JSON error body and the route returned
C11_Witness ==
    \E j \in 1..Len(routes) :
       /\ routes[j].route = "/api/chatbot" /\ Returned(j) /\ JsonReply(j)
       /\ routes[j].outcome.status = 400
       /\ routes[j].response.status = 400

\* C12 as stated: whenever the backend answers the upload route with a JSON
\* body, the route's response has the backend's status and the backend's
\* body, for a 2xx reply and for a non-2xx reply alike.
C12_UploadRelay ==
    \A j \in 1..Len(routes) :
       (routes[j].route = "/api/upload" /\ Returned(j) /\ JsonReply(j)) =>
          routes[j].response =
             [status |-> routes[j].outcome.status, body |-> routes[j].outcome.body]

\* C12 amended: a 2xx backend reply with a JSON body is returned with the
\* body unchanged and status 200; a non-2xx backend reply is returned as
\* status 500 with the body { error: "Backend error: <statusText>" }, so
\* neither the backend's status nor its body reaches the caller.
C12_UploadRelayOkOnly ==
    \A j \in 1..Len(routes) :
       (routes[j].route = "/api/upload" /\ Returned(j)
          /\ routes[j].outcome.kind = "reply") =>
          IF routes[j].outcome.status \in 200..299
          THEN routes[j].outcome.json =>
                  routes[j].response =
                     [status |-> 200, body |-> routes[j].outcome.body]
          ELSE routes[j].response =
                  [status |-> 500,
                   body |-> [error |-> "Backend error: "
                                          \o routes[j].outcome.statusText]]

\* the backend answered one upload with 201 and another with 400
C12_Witness ==
    \E j, k \in 1..Len(routes) :
       /\ routes[j].route = "/api/upload" /\ Returned(j)
       /\ routes[j].outcome.status = 201 /\ routes[j].response.status = 200
       /\ routes[k].route = "/api/upload" /\ Returned(k)
       /\ routes[k].outcome.status = 400 /\ routes[k].response.status = 500

\* C13: no invocation of either route ends with an exception leaving POST;
\* every finished invocation has returned a JSON response.
C13_NoEscape ==
    \A j \in 1..Len(routes) : routes[j].pc # "threw"

----------------------------------------------------------------------------
(* Properties of the page, continued *)

\* the files C16 says are selected
ExcelOrCsv(f) ==
    \/ FileInfo[f].type = "application/vnd.ms-excel"
    \/ FileInfo[f].type = "application/vnd.openxmlformats-officedocument.spreadsheetml.sheet"
    \/ FileInfo[f].type = "text/csv"
    \/ FileInfo[f].ext \in {".xlsx", ".xls", ".csv"}

\* C16: while the file input is usable, picking f makes f the selected file
\* exactly when f has one of the three Excel/CSV MIME types or a name
\* ending in .xlsx, .xls or .csv; picking any other file shows the alert and
\* leaves the selected file as it was.
C16_FileTypeCheck ==
    (~crashed /\ ~Disabled) =>
       \A f \in Files :
          /\ f # selectedFile =>
                (ExcelOrCsv(f) <=> ENABLED (handleFileChange(f) /\ selectedFile' = f))
          /\ ExcelOrCsv(f) => ~FileChangeAlerts(f)
          /\ ~ExcelOrCsv(f) =>
                /\ FileChangeAlerts(f)
                /\ ENABLED (handleFileChange(f) /\ selectedFile' = selectedFile)

\* a file accepted for its MIME type alone is selected and the input is
\* usable, so that picking notes.txt would be rejected with that file kept
C16_Witness ==
    /\ ~crashed /\ ~Disabled
    /\ selectedFile = "export"
    /\ Len(calls) = 1

\* C17: results is non-null only if some upload request has come back
\* with a response since the page was loaded.
C17_ResultsNeedUpload ==
    results # NullResults =>
       \E k \in Events : IsSettled(k, "/api/upload", "response")

\* C18: loading is true exactly while an invocation of handleSendMessage
\* has not finished: it is set when the send starts, reset when the send
\* ends with a reply or in the catch block, and stays true for as long as
\* a request of the send has not settled.
C18_LoadingWhileInFlight == loading <=> InFlight # {}

\* one send ended in the catch block, the next one with a reply, and
\* loading is false again
C18_Witness ==
    /\ Len(calls) = 2
    /\ calls[1].pc = "done" /\ calls[1].outcome = "error"
    /\ calls[2].pc = "done" /\ calls[2].outcome = "ok"
    /\ ~loading

\* C19: an invocation has appended its user message from its start on, and
\* once it has finished it has appended exactly one more message, a bot
\* message; the list alternates user, bot from its first message, and its
\* length is even whenever no invocation is in flight.
C19_UserThenBot ==
    /\ \A i \in Calls :
          /\ messages[calls[i].base + 1].isUser
          /\ messages[calls[i].base + 1].text = Text(calls[i].text)
          /\ IF calls[i].pc = "done"
             THEN /\ MessagesEnd(i) = calls[i].base + 2
                  /\ ~messages[calls[i].base + 2].isUser
             ELSE MessagesEnd(i) = calls[i].base + 1
    /\ \A n \in 1..Len(messages) : messages[n].isUser <=> n % 2 = 1
    /\ InFlight = {} => Len(messages) % 2 = 0

\* a send that ended with an error message is followed by a send that
\* ended with a reply, and by a third message typed but not yet sent
C19_Witness ==
    /\ Len(calls) = 2 /\ InFlight = {}
    /\ calls[1].outcome = "error" /\ calls[2].outcome = "ok"
    /\ IsErrorMessage(messages[2])
    /\ ~IsErrorMessage(messages[4])
    /\ message = " Analyze Wakad "

----------------------------------------------------------------------------
(* Properties of the page and the routes together *)

BackendCallsOf(j) == {b \in 1..Len(backend) : backend[b].inv = j}

\* the last event of invocation i in the network log
LastEventOf(i) ==
    CHOOSE k \in Events :
       net[k].call = i /\ \A k2 \in Events : net[k2].call = i => k2 <= k

C15_SameSession ==
    /\ sessionId # NullStr <=> Len(calls) > 0
    /\ \A i \in Calls : calls[i].session = calls[1].session
    /\ \A k \in Events :
          net[k].kind = "request" => net[k].body.session_id = sessionId
    /\ \A b \in 1..Len(backend) : backend[b].body.session_id = sessionId

\* the second send starts a millisecond after the first, which had a file
C15_Witness ==
    /\ Len(calls) = 2
    /\ calls[1].file # Undefined /\ calls[1].outcome = "ok"
    /\ messages[1].id = 0 /\ messages[3].id = 1
    /\ Len(backend) = 3

\* the value Date.now() had when message n was created
ReadTime(n) == IF messages[n].isUser THEN messages[n].id ELSE messages[n].id - 1

\* every message was created at a later millisecond than the one before
ClockAdvanced ==
    \A n \in 1..(Len(messages) - 1) : ReadTime(n) < ReadTime(n + 1)

\* C20: no two messages of the list have the same id, here even for the
\* lists whose messages were each created later than the one before.
C20_DistinctIds ==
    ClockAdvanced =>
       \A m, n \in 1..Len(messages) : m # n => messages[m].id # messages[n].id

----------------------------------------------------------------------------
(* Properties of the page: the error path and the submit handler *)

\* the step is the catch block of some invocation
CatchStep ==
    \E i \in 1..Len(calls) :
       /\ Len(calls') = Len(calls)
       /\ calls[i].pc # "done"
       /\ calls'[i].outcome = "error"

\* the step is one of an invocation and does not end it with a reply
StepWithoutReply ==
    /\ calls' # calls
    /\ ~\E i \in 1..Len(calls) :
          /\ Len(calls') = Len(calls)
          /\ calls[i].outcome # "ok"
          /\ calls'[i].outcome = "ok"

\* C21: no step of a send other than the one handling the chat reply
\* changes results, so a send that fails leaves results as they were; the
\* catch block changes nothing of the page state but messages, error and
\* loading.
C21_FailureKeepsResults ==
    [][/\ StepWithoutReply => results' = results
       /\ CatchStep =>
             /\ results' = results
             /\ UNCHANGED <<uploadedFile, hasUploadedData, sessionId,
                            message, selectedFile>>]_vars

\* a send with a reply put results on the page and the next send failed in
\* its chat request
C21_Witness ==
    /\ Len(calls) = 2
    /\ calls[1].outcome = "ok" /\ calls[2].outcome = "error"
    /\ \E k \in Events : net[k].call = 2 /\ IsSettled(k, "/api/chatbot", "error")
    /\ results # NullResults
    /\ ~crashed

\* what C22 calls an empty trimmed message, and the trimmed text of the others
Blank(t) == t \in {"", "   "}
Stripped(t) == IF t = " Analyze Wakad " THEN "Analyze Wakad" ELSE t

\* C22: a submit while the trimmed message is empty or the input is
\* disabled changes nothing; a step that starts a send happens only with a
\* non-empty trimmed message and an enabled input, hands the trimmed text
\* and the selected file to handleSendMessage, and clears the message and
\* the selected file.
C22_SubmitOnlyWhenReady ==
    /\ []((Blank(message) \/ Disabled) =>
             ~ENABLED (handleSubmit /\ UNCHANGED <<serverVars, renderVars>> /\ vars' # vars))
    /\ [][Len(calls') = Len(calls) + 1 =>
             /\ ~Blank(message) /\ ~Disabled
             /\ calls'[Len(calls')].text = Stripped(message)
             /\ calls'[Len(calls')].file = selectedFile
             /\ messages'[Len(messages')].text = Text(Stripped(message))
             /\ message' = ""
             /\ selectedFile' = Undefined]_vars

\* a send was submitted with a file selected, and blanks are typed while
\* the input is usable again
C22_Witness ==
    /\ Len(calls) = 1
    /\ calls[1].file = "data.xlsx"
    /\ calls[1].text = "Analyze Wakad"
    /\ selectedFile = Undefined
    /\ message = "   "
    /\ ~Disabled /\ ~crashed

\* the upload request of invocation i came back with a response
UploadSucceeded(i) ==
    \E k \in Events : net[k].call = i /\ IsSettled(k, "/api/upload", "response")

\* C23: once no send is in flight, hasUploadedData is true only if some
\* upload has succeeded, and uploadedFile is a file only if the upload of
\* that file has succeeded.
C23_FileStateNeedsUpload ==
    InFlight = {} =>
       /\ hasUploadedData => \E i \in Calls : UploadSucceeded(i)
       /\ uploadedFile # Undefined =>
             \E i \in Calls : calls[i].file = uploadedFile /\ UploadSucceeded(i)

----------------------------------------------------------------------------
(* Properties of the components *)

\* C24: a summary of at most 300 characters is shown as it is and without
\* the truncation notice; a longer one is shown as its first 300
\* characters followed by '...', with the notice.
C24_SummaryTruncation ==
    rendered.kind = "SummaryCard" =>
       IF Len(props.summary) <= 300
       THEN rendered.text = props.summary /\ ~rendered.notice
       ELSE /\ Len(rendered.text) = 303
            /\ SubSeq(rendered.text, 1, 300) = SubSeq(props.summary, 1, 300)
            /\ SubSeq(rendered.text, 301, 303) = <<".", ".", ".">>
            /\ rendered.notice

\* a summary of 301 characters has been rendered
C24_Witness ==
    /\ rendered.kind = "SummaryCard"
    /\ Len(props.summary) = 301
    /\ rendered.notice

\* the place (row, position in the row) where key first occurs in data
FirstPlace(data, key) ==
    LET r == CHOOSE r \in 1..Len(data) :
                /\ \E i \in 1..Len(data[r]) : data[r][i].key = key
                /\ \A q \in 1..(r - 1) : \A i \in 1..Len(data[q]) : data[q][i].key # key
    IN  <<r, CHOOSE i \in 1..Len(data[r]) : data[r][i].key = key>>

Earlier(a, b) == a[1] < b[1] \/ (a[1] = b[1] /\ a[2] < b[2])

KeysOf(data) ==
    UNION {{data[r][i].key : i \in 1..Len(data[r])} : r \in 1..Len(data)}

\* C25: for data with rows, the columns are the distinct keys of the rows
\* in the order in which they first occur, there is one table row per data
\* row in the same order, and a cell shows '-' exactly when its row lacks
\* the column's key; for empty or missing data the table shows 'No data
\* available' and handleDownload has written nothing.
C25_TableColumns ==
    /\ rendered.kind = "DataTable" =>
          IF props.missing \/ props.data = <<>>
          THEN /\ rendered.text = "No data available"
               /\ rendered.rows = <<>> /\ rendered.columns = <<>>
          ELSE LET data == props.data
                   cols == rendered.columns
               IN  /\ {cols[c] : c \in 1..Len(cols)} = KeysOf(data)
                   /\ Len(cols) = Cardinality(KeysOf(data))
                   /\ \A c, d \in 1..Len(cols) :
                         c < d => Earlier(FirstPlace(data, cols[c]),
                                          FirstPlace(data, cols[d]))
                   /\ Len(rendered.rows) = Len(data)
                   /\ \A r \in 1..Len(data) :
                         /\ Len(rendered.rows[r]) = Len(cols)
                         /\ \A c \in 1..Len(cols) :
                               rendered.rows[r][c] = "-" <=>
                                  \A i \in 1..Len(data[r]) : data[r][i].key # cols[c]
    /\ (props.component = "DataTable" /\ (props.missing \/ props.data = <<>>)) =>
          exported = NothingExported
    /\ exported # NothingExported => exported.rows = props.data

\* a table of two rows and three columns, whose first row lacks the third
\* column's key, has been rendered and exported
C25_Witness ==
    /\ rendered.kind = "DataTable"
    /\ rendered.columns = <<"price", "area", "year_built">>
    /\ rendered.rows[1][3] = "-"
    /\ rendered.rows[2][1] = "-"
    /\ exported # NothingExported

\* C26: the chart gets one point per entry of years, in the same order;
\* point i has year years[i], and has price prices[i] and demand demand[i]
\* when those arrays reach position i and no price or demand otherwise;
\* what prices and demand hold beyond the length of years appears nowhere.
C26_ChartPoints ==
    rendered.kind = "ChartView" =>
       LET chart == props.chartData
           data == rendered.data
       IN  /\ Len(data) = Len(chart.years)
           /\ \A i \in 1..Len(data) :
                 /\ data[i].year = chart.years[i]
                 /\ IF i <= Len(chart.prices)
                    THEN "price" \in DOMAIN data[i] /\ data[i].price = chart.prices[i]
                    ELSE "price" \notin DOMAIN data[i]
                 /\ IF i <= Len(chart.demand)
                    THEN "demand" \in DOMAIN data[i] /\ data[i].demand = chart.demand[i]
                    ELSE "demand" \notin DOMAIN data[i]

\* a chart with one year, two different prices and no demand has been
\* rendered
C26_Witness ==
    /\ rendered.kind = "ChartView"
    /\ Len(props.chartData.years) = 1
    /\ props.chartData.prices = <<100, 120>>
    /\ props.chartData.demand = <<>>
    /\ Len(rendered.data) = 1

\* the value invocation i caught, and the text its error message quotes
CaughtBy(i) == net[LastEventOf(i)].body
QuotedError(i) == messages[calls[i].base + 2].text[2]

Present(v) == v # "undefined" /\ v # "null" /\ v # ""

====
